---------------------------- MODULE Spec2Model ----------------------------
(***************************************************************************)
(* Model of the avient.com documentation crawler (src/main.go).            *)
(*                                                                         *)
(* Stage 1 (crawl): one getDataFromURL goroutine per page index appends    *)
(* the page body to the aggregate artifact "avient.com.html".              *)
(* Stage 2 (download): parseHTML over the artifact, deduplication, and     *)
(* one downloadPDF goroutine per valid resolved link.                      *)
(*                                                                         *)
(* Strings are sequences of one-character strings, so that prefix tests,   *)
(* percent-decoding, path.Base, the regular-expression replacement and     *)
(* lowercasing are computed as the library computes them.  Bytes outside   *)
(* printable ASCII, userinfo ("@") and bracketed IPv6 hosts are outside    *)
(* the alphabet of the inputs that are enumerated.                         *)
(***************************************************************************)
EXTENDS Integers, Sequences, FiniteSets, TLC

(***************************************************************************)
(* Bounds of the model.                                                    *)
(***************************************************************************)
\* pages 0..MaxPage are crawled (the program crawls 0..5000)
MaxPage == 1
\* number of consecutive program runs over the same file system
MaxRuns == 2
\* longest input of the deduplication specification
MaxLen == 4
\* longest input of the sanitizing specification
MaxURLLen == 4
\* largest number of elements of a document of the extraction specification
MaxDocLen == 4

(***************************************************************************)
(* Characters and string helpers (package strings).                        *)
(***************************************************************************)
upper == <<"A","B","C","D","E","F","G","H","I","J","K","L","M","N","O","P","Q","R","S","T","U","V","W","X","Y","Z">>
lower == <<"a","b","c","d","e","f","g","h","i","j","k","l","m","n","o","p","q","r","s","t","u","v","w","x","y","z">>
digits == <<"0","1","2","3","4","5","6","7","8","9">>
\* the double quote, the backslash and the backtick, written as tokens
dquote == "<dquote>"
backslash == "<backslash>"
backtick == "<backtick>"
\* printable ASCII, code 32 at index 1
printable == <<" ","!",dquote,"#","$","%","&","'","(",")","*","+",",","-",".","/","0","1","2","3","4","5","6","7","8","9",":",";","<","=",">","?","@","A","B","C","D","E","F","G","H","I","J","K","L","M","N","O","P","Q","R","S","T","U","V","W","X","Y","Z","[",backslash,"]","^","_",backtick,"a","b","c","d","e","f","g","h","i","j","k","l","m","n","o","p","q","r","s","t","u","v","w","x","y","z","{","|","}","~">>
\* a decoded byte that is not printable ASCII
otherByte == "<byte>"

Range(s) == {s[i] : i \in DOMAIN s}

upperSet == Range(upper)
lowerSet == Range(lower)
digitSet == Range(digits)

IsUpper(c) == c \in upperSet
IsLower(c) == c \in lowerSet
IsDigit(c) == c \in digitSet
IsLetter(c) == IsUpper(c) \/ IsLower(c)

ToLowerChar(c) ==
    IF IsUpper(c) THEN lower[CHOOSE i \in DOMAIN upper : upper[i] = c] ELSE c

\* strings.ToLower
ToLower(s) == [i \in DOMAIN s |-> ToLowerChar(s[i])]

\* strings.HasPrefix
HasPrefix(s, p) == Len(s) >= Len(p) /\ SubSeq(s, 1, Len(p)) = p

\* strings.HasSuffix
HasSuffix(s, p) == Len(s) >= Len(p) /\ SubSeq(s, Len(s) - Len(p) + 1, Len(s)) = p

\* strings.Contains
Contains(s, sub) ==
    \E i \in 1..(Len(s) - Len(sub) + 1) : SubSeq(s, i, i + Len(sub) - 1) = sub

\* strings.Index for a one-character needle, 0 when absent
Index(s, c) ==
    IF c \in Range(s) THEN CHOOSE i \in DOMAIN s : s[i] = c /\ \A j \in 1..(i-1) : s[j] # c
    ELSE 0

\* strings.LastIndex for a one-character needle, 0 when absent
LastIndex(s, c) ==
    IF c \in Range(s) THEN CHOOSE i \in DOMAIN s : s[i] = c /\ \A j \in (i+1)..Len(s) : s[j] # c
    ELSE 0

\* strings.Count for a one-character needle
Count(s, c) == Cardinality({i \in DOMAIN s : s[i] = c})

\* strings.Trim(s, "_")
Trim(s, c) ==
    LET keep == {i \in DOMAIN s : s[i] # c}
    IN  IF keep = {} THEN <<>>
        ELSE LET lo == CHOOSE i \in keep : \A j \in keep : i <= j
                 hi == CHOOSE i \in keep : \A j \in keep : j <= i
             IN  SubSeq(s, lo, hi)

(***************************************************************************)
(* Percent-decoding (package net/url).                                     *)
(***************************************************************************)
hexdigits == <<"0","1","2","3","4","5","6","7","8","9","a","b","c","d","e","f">>

hexSet == Range(hexdigits)

IsHex(c) == ToLowerChar(c) \in hexSet

UnHex(c) == (CHOOSE i \in DOMAIN hexdigits : hexdigits[i] = ToLowerChar(c)) - 1

ByteChar(n) == IF n \in 32..126 THEN printable[n - 31] ELSE otherByte

\* characters a host may hold unescaped (shouldEscape in host mode)
HostChar(c) ==
    \/ IsLetter(c) \/ IsDigit(c)
    \/ c \in {"!","$","&","'","(",")","*","+",",",";","=",":","[","]","<",">",dquote,"-","_",".","~"}

\* the escape at position i of s is well formed
GoodEscape(s, i) == i + 2 <= Len(s) /\ IsHex(s[i+1]) /\ IsHex(s[i+2])

\* first pass of unescape: the string is rejected
UnescapeFails(s, mode) ==
    \E i \in DOMAIN s :
        \/ s[i] = "%" /\ ~GoodEscape(s, i)
        \/ /\ s[i] = "%" /\ mode = "host"
           /\ UnHex(s[i+1]) < 8 /\ SubSeq(s, i, i+2) # <<"%","2","5">>
        \/ s[i] # "%" /\ mode = "host" /\ s[i] # otherByte /\ ~HostChar(s[i])

RECURSIVE Decode(_, _, _)
\* second pass of unescape from position i
Decode(s, i, mode) ==
    IF i > Len(s) THEN <<>>
    ELSE IF s[i] = "%"
         THEN <<ByteChar(16 * UnHex(s[i+1]) + UnHex(s[i+2]))>> \o Decode(s, i + 3, mode)
         ELSE IF s[i] = "+" /\ mode = "query"
              THEN <<" ">> \o Decode(s, i + 1, mode)
              ELSE <<s[i]>> \o Decode(s, i + 1, mode)

\* url.unescape: on error the value is the empty string
Unescape(s, mode) ==
    IF UnescapeFails(s, mode) THEN [err |-> TRUE, val |-> <<>>]
    ELSE [err |-> FALSE, val |-> Decode(s, 1, mode)]

\* url.QueryUnescape
QueryUnescape(s) == Unescape(s, "query")

(***************************************************************************)
(* URL parsing (package net/url), as used by isUrlValid and                *)
(* sanitizeFileNameFromURL.                                                *)
(***************************************************************************)
\* strings.Cut at the first occurrence of c
CutBefore(s, c) == IF Index(s, c) = 0 THEN s ELSE SubSeq(s, 1, Index(s, c) - 1)
CutAfter(s, c) == IF Index(s, c) = 0 THEN <<>> ELSE SubSeq(s, Index(s, c) + 1, Len(s))

\* position i of s can still belong to a scheme
SchemeChar(s, i) ==
    \/ IsLetter(s[i])
    \/ i > 1 /\ (IsDigit(s[i]) \/ s[i] \in {"+", "-", "."})

\* url.getScheme when the scan stops at position i
SchemeAt(raw, i) ==
    IF raw[i] # ":" THEN [err |-> FALSE, scheme |-> <<>>, rest |-> raw]
    ELSE IF i = 1 THEN [err |-> TRUE, scheme |-> <<>>, rest |-> <<>>]
    ELSE [err |-> FALSE, scheme |-> SubSeq(raw, 1, i - 1), rest |-> SubSeq(raw, i + 1, Len(raw))]

\* url.getScheme, stops being the positions that end the scan
SchemeStops(raw, stops) ==
    IF stops = {} THEN [err |-> FALSE, scheme |-> <<>>, rest |-> raw]
    ELSE SchemeAt(raw, CHOOSE k \in stops : \A j \in stops : k <= j)

\* url.getScheme
GetScheme(raw) == SchemeStops(raw, {i \in DOMAIN raw : ~SchemeChar(raw, i)})

\* url.validOptionalPort
ValidOptionalPort(port) ==
    \/ port = <<>>
    \/ port[1] = ":" /\ \A i \in 2..Len(port) : IsDigit(port[i])

\* url.parseHost for a bracketed host whose last "]" is at position i
BracketHostFails(host, i) ==
    \/ i = 0
    \/ ~ValidOptionalPort(SubSeq(host, i + 1, Len(host)))
    \/ UnescapeFails(SubSeq(host, 1, i), "host")

\* url.parseHost for a host whose last ":" is at position i (0: none)
PlainHostFails(host, i) ==
    \/ i # 0 /\ ~ValidOptionalPort(SubSeq(host, i, Len(host)))
    \/ UnescapeFails(host, "host")

\* url.parseHost: the host is rejected
ParseHostFails(host) ==
    IF HasPrefix(host, <<"[">>)
    THEN BracketHostFails(host, LastIndex(host, "]"))
    ELSE PlainHostFails(host, LastIndex(host, ":"))

\* url.validUserinfo
ValidUserinfo(s) ==
    \A i \in DOMAIN s :
        \/ IsLetter(s[i]) \/ IsDigit(s[i])
        \/ s[i] \in {"-",".","_",":","~","!","$","&","'","(",")","*","+",",",";","=","%","@"}

\* url.parseAuthority with the userinfo and the host split apart
UserinfoHostFails(userinfo, host) ==
    \/ ParseHostFails(host)
    \/ ~ValidUserinfo(userinfo)
    \/ UnescapeFails(userinfo, "userinfo")

\* url.parseAuthority when the last "@" is at position i (0: none)
AuthorityAtFails(authority, i) ==
    IF i = 0 THEN ParseHostFails(authority)
    ELSE UserinfoHostFails(SubSeq(authority, 1, i - 1), SubSeq(authority, i + 1, Len(authority)))

\* url.parseAuthority: the authority is rejected
ParseAuthorityFails(authority) == AuthorityAtFails(authority, LastIndex(authority, "@"))

\* the part of rest before its query
BeforeQuery(rest) ==
    IF HasSuffix(rest, <<"?">>) /\ Count(rest, "?") = 1
    THEN SubSeq(rest, 1, Len(rest) - 1)
    ELSE CutBefore(rest, "?")

\* a URL that does not parse
BadURL == [err |-> TRUE, path |-> <<>>]

\* the URL whose path unescaped to u
URLOfPath(u) == IF u.err THEN BadURL ELSE [err |-> FALSE, path |-> u.val]

\* url.setPath
SetPath(p) == URLOfPath(Unescape(p, "path"))

\* url.parse, the authority and the path starting at position i (0: no path)
AuthorityAndPath(after, i) ==
    IF i = 0
    THEN IF ParseAuthorityFails(after) THEN BadURL ELSE SetPath(<<>>)
    ELSE IF ParseAuthorityFails(SubSeq(after, 1, i - 1)) THEN BadURL
         ELSE SetPath(SubSeq(after, i, Len(after)))

\* url.parse after the scheme and the query are split off
ParseRest(scheme, rest, viaRequest) ==
    IF ~HasPrefix(rest, <<"/">>) /\ scheme # <<>> THEN [err |-> FALSE, path |-> <<>>]
    ELSE IF ~HasPrefix(rest, <<"/">>) /\ viaRequest THEN BadURL
    ELSE IF ~HasPrefix(rest, <<"/">>) /\ ":" \in Range(CutBefore(rest, "/")) THEN BadURL
    ELSE IF /\ scheme # <<>> \/ (~viaRequest /\ ~HasPrefix(rest, <<"/","/","/">>))
            /\ HasPrefix(rest, <<"/","/">>)
         THEN AuthorityAndPath(SubSeq(rest, 3, Len(rest)), Index(SubSeq(rest, 3, Len(rest)), "/"))
         ELSE SetPath(rest)

\* url.parse after getScheme
ParseAfterScheme(sch, viaRequest) ==
    IF sch.err THEN BadURL ELSE ParseRest(sch.scheme, BeforeQuery(sch.rest), viaRequest)

\* url.parse: err, and the decoded Path of the URL
ParseURL(rawURL, viaRequest) ==
    IF rawURL = <<>> /\ viaRequest THEN BadURL
    ELSE IF rawURL = <<"*">> THEN [err |-> FALSE, path |-> <<"*">>]
    ELSE ParseAfterScheme(GetScheme(rawURL), viaRequest)

\* url.Parse once the part before "#" is parsed: the fragment is unescaped
WithFragment(u, frag) == IF ~u.err /\ UnescapeFails(frag, "fragment") THEN BadURL ELSE u

\* url.Parse: the fragment is split off first
Parse(rawURL) == WithFragment(ParseURL(CutBefore(rawURL, "#"), FALSE), CutAfter(rawURL, "#"))

\* url.ParseRequestURI
ParseRequestURI(rawURL) == ParseURL(rawURL, TRUE)

\* isUrlValid
isUrlValid(uri) == ~ParseRequestURI(uri).err

RECURSIVE StripTrailingSlashes(_)
StripTrailingSlashes(p) ==
    IF p # <<>> /\ p[Len(p)] = "/" THEN StripTrailingSlashes(SubSeq(p, 1, Len(p) - 1))
    ELSE p

\* the part of q after its last slash, "/" when that is empty
LastElement(q, i) == IF i = Len(q) THEN <<"/">> ELSE SubSeq(q, i + 1, Len(q))

\* path.Base without its first test
BaseOfStripped(q) == LastElement(q, LastIndex(q, "/"))

\* path.Base
Base(p) == IF p = <<>> THEN <<".">> ELSE BaseOfStripped(StripTrailingSlashes(p))

\* \w of the regular expression
IsWordChar(c) == IsLetter(c) \/ IsDigit(c) \/ c = "_"

\* regexp [^\w\-.] replaced by "_"
ReplaceInvalid(s) ==
    [i \in DOMAIN s |-> IF IsWordChar(s[i]) \/ s[i] \in {"-", "."} THEN s[i] ELSE "_"]

invalid_filename == <<"i","n","v","a","l","i","d","_","f","i","l","e","n","a","m","e">>
downloaded_file == <<"d","o","w","n","l","o","a","d","e","d","_","f","i","l","e">>

\* lines 177-181: the fallback name, or the name in lower case
SafeName(safeFileName) ==
    IF safeFileName = <<>> THEN downloaded_file ELSE ToLower(safeFileName)

\* lines 160-181, given the result of url.Parse
SanitizeParsed(parsedURL) ==
    IF parsedURL.err THEN invalid_filename
    ELSE SafeName(Trim(ReplaceInvalid(QueryUnescape(Base(parsedURL.path)).val), "_"))

\* sanitizeFileNameFromURL
sanitizeFileNameFromURL(rawURL) == SanitizeParsed(Parse(rawURL))

(***************************************************************************)
(* Link extraction and deduplication.                                      *)
(***************************************************************************)
\* an anchor element with an href attribute, and the newline appended after a page
Anchor(href) == [kind |-> "a", href |-> href]
Newline == [kind |-> "nl"]

pdfExt == <<".","p","d","f">>

\* the callback of doc.Find("a[href]").Each: the anchor is kept
HasPdfSuffix(decodedHref) ==
    ~decodedHref.err /\ HasSuffix(ToLower(decodedHref.val), pdfExt)

\* the suffix is tested on the href as written, without decoding
IsPdfLink_noDecode(href) == HasSuffix(ToLower(href), pdfExt)

\* lines 200-208: href is decoded and tested
IsPdfLink(href) == HasPdfSuffix(QueryUnescape(href))

RECURSIVE EachFrom(_, _)
\* doc.Find("a[href]").Each from element i of the document, in document order
EachFrom(doc, i) ==
    IF i > Len(doc) THEN <<>>
    ELSE IF doc[i].kind = "a" /\ IsPdfLink(doc[i].href)
         THEN <<doc[i].href>> \o EachFrom(doc, i + 1)
         ELSE EachFrom(doc, i + 1)

\* parseHTML over the elements of the document
parseHTML(htmlContent) == EachFrom(htmlContent, 1)

\* the loop body without the lookup in the map
KeepContent_noCheck(check, content) == TRUE

\* the body of the loop of removeDuplicatesFromSlice: content is appended
KeepContent(check, content) == content \notin check

RECURSIVE DedupFrom(_, _, _)
\* the loop of removeDuplicatesFromSlice from position i with the map check
DedupFrom(slice, i, check) ==
    IF i > Len(slice) THEN <<>>
    ELSE IF KeepContent(check, slice[i])
         THEN <<slice[i]>> \o DedupFrom(slice, i + 1, check \cup {slice[i]})
         ELSE DedupFrom(slice, i + 1, check)

\* removeDuplicatesFromSlice
removeDuplicatesFromSlice(slice) == DedupFrom(slice, 1, {})

\* slices.Reverse
Reverse(s) == [i \in DOMAIN s |-> s[Len(s) + 1 - i]]

(***************************************************************************)
(* Inputs of the environment: what the remote server and the file system   *)
(* can answer.                                                             *)
(***************************************************************************)
origin == <<"h","t","t","p","s",":","/","/","w","w","w",".","a","v","i","e","n","t",".","c","o","m">>
pdfType == <<"a","p","p","l","i","c","a","t","i","o","n","/","p","d","f">>
StatusOK == 200

hrefA == <<"/","a",".","p","d","f">>
hrefXA == <<"/","x","/","A",".","P","D","F">>
hrefPng == <<"/","b",".","p","n","g">>
hrefAbs == <<"h","t","t","p","s",":","/","/","w","w","w",".","a","v","i","e","n","t",".","c","o","m","/","b",".","p","d","f">>

\* bodies a listing page can have: the anchors of the page, in document order
PageBodies ==
    { <<>>,
      <<Anchor(hrefA), Anchor(hrefPng), Anchor(hrefXA)>>,
      <<Anchor(hrefA), Anchor(hrefAbs)>> }

\* responses a page GET can return when the transport does not fail: each
\* body comes with one status, an error status with and without a body
PageResponses ==
    { [status |-> 500, body |-> <<>>],
      [status |-> StatusOK, body |-> <<Anchor(hrefA), Anchor(hrefPng), Anchor(hrefXA)>>],
      [status |-> 404, body |-> <<Anchor(hrefA), Anchor(hrefAbs)>>] }

ctPdfCs == <<"a","p","p","l","i","c","a","t","i","o","n","/","p","d","f",";","v","=","1">>
ctHtml == <<"t","e","x","t","/","h","t","m","l">>

\* responses a download GET can return when the transport does not fail
Responses ==
    { [status |-> StatusOK, ctype |-> pdfType, body |-> <<1, 1>>, readErr |-> FALSE],
      [status |-> StatusOK, ctype |-> ctPdfCs, body |-> <<2>>, readErr |-> FALSE],
      [status |-> 404, ctype |-> pdfType, body |-> <<2>>, readErr |-> FALSE],
      [status |-> StatusOK, ctype |-> ctHtml, body |-> <<2>>, readErr |-> FALSE],
      [status |-> StatusOK, ctype |-> pdfType, body |-> <<>>, readErr |-> FALSE],
      [status |-> StatusOK, ctype |-> pdfType, body |-> <<1, 1>>, readErr |-> TRUE] }

\* values of the inputs of the deduplication specification
DedupValues == {hrefA, hrefXA, hrefPng}

(***************************************************************************)
(* State.                                                                  *)
(***************************************************************************)
VARIABLES
    run,            \* number of the current program run
    status,         \* "running", "fatal" (log.Fatalln) or "exited"
    fatalCause,     \* the call whose error ended the process
    mainPC,         \* position of main
    pageNumber,     \* loop variable of the crawl loop
    linkIdx,        \* position of the range loop over fullURLList
    htmlDownloadWaitGroup,
    pdfDownloadWaitGroup,
    page,           \* the getDataFromURL goroutines, by page number
    localFile,      \* the file avient.com.html
    fullURLList,
    dl,             \* the downloadPDF goroutines, by position in fullURLList
    outDir,         \* regular files of PDFs/, by name
    outDirExists,   \* the directory PDFs/ exists
    slice,          \* input of removeDuplicatesFromSlice (deduplication specification)
    newReturnSlice, \* its result
    dstep,          \* applications of removeDuplicatesFromSlice so far
    rawURL,         \* input of sanitizeFileNameFromURL (sanitizing specification)
    safeFileName,   \* its result
    htmlContent,    \* input of parseHTML (extraction specification)
    pdfLinks,       \* its result
    called,         \* the function that was applied to its input, or "none"
    localFileAtStart \* history: avient.com.html as the current run found it

fsVars == <<localFile, outDir, outDirExists>>
mainVars == <<mainPC, pageNumber, linkIdx>>
dedupVars == <<slice, newReturnSlice, dstep>>
sanVars == <<rawURL, safeFileName>>
htmlVars == <<htmlContent, pdfLinks>>
funcVars == <<dedupVars, sanVars, htmlVars, called>>
vars == <<run, status, fatalCause, mainPC, pageNumber, linkIdx,
          htmlDownloadWaitGroup, pdfDownloadWaitGroup, page, localFile,
          fullURLList, dl, outDir, outDirExists, slice, newReturnSlice, dstep,
          rawURL, safeFileName, htmlContent, pdfLinks, called, localFileAtStart>>

Pages == 0..MaxPage

\* state of a process right after it is started
FreshProcess ==
    /\ status = "running"
    /\ fatalCause = "none"
    /\ mainPC = "start"
    /\ pageNumber = 0
    /\ linkIdx = 1
    /\ htmlDownloadWaitGroup = 0
    /\ pdfDownloadWaitGroup = 0
    /\ page = [p \in Pages |-> [pc |-> "idle", body |-> <<>>, status |-> 0]]
    /\ fullURLList = <<>>
    /\ dl = <<>>

NoDedup == slice = <<>> /\ newReturnSlice = <<>> /\ dstep = 0

\* no function is studied on its own
NoCall ==
    /\ rawURL = <<>> /\ safeFileName = <<>>
    /\ htmlContent = <<>> /\ pdfLinks = <<>>
    /\ called = "none"

\* avient.com.html does not exist; a directory has its name
NoFile == [exists |-> FALSE, isDir |-> FALSE, content |-> <<>>]
DirFile == [exists |-> TRUE, isDir |-> TRUE, content |-> <<>>]

Init ==
    /\ run = 1
    /\ FreshProcess
    /\ localFile \in {NoFile, DirFile}
    /\ localFileAtStart = localFile
    /\ outDir = [f \in {} |-> <<>>]
    /\ outDirExists = FALSE
    /\ NoDedup
    /\ NoCall

(***************************************************************************)
(* File system helpers.                                                    *)
(***************************************************************************)
\* filepath.Join(outputDir, filename) names a directory, not an entry of PDFs/
IsDirPath(filename) == filename \in {<<".">>, <<".", ".">>}

\* fileExists with the test of info.IsDir() inverted
fileExists_inverted(dir, filename) == IsDirPath(filename)

\* fileExists(filepath.Join(outputDir, filename))
fileExists(dir, filename) == ~IsDirPath(filename) /\ filename \in DOMAIN dir

\* fileExists, lines 234-238, on the result of os.Stat
IsRegular(file) == file.exists /\ ~file.isDir

\* the file filename of dir holds content
PutFile(dir, filename, content) ==
    [f \in DOMAIN dir \cup {filename} |-> IF f = filename THEN content ELSE dir[f]]

\* a write of data at offset 0 of a file that holds old
WriteAt0(old, data) == data \o SubSeq(old, Len(data) + 1, Len(old))

\* a join that does not wait
WaitReturns_noWait(counter) == TRUE

\* wg.Wait returns
WaitReturns(counter) == counter = 0

\* wg.Add(1)
wgAdd(counter) == counter + 1

\* a completion signal that is lost
wgDone_lost(counter) == counter

\* wg.Done()
wgDone(counter) == counter - 1

\* the error is logged and the process goes on
Fatal_logOnly(cause) ==
    /\ status' = status
    /\ fatalCause' = cause

\* log.Fatalln: the process ends at once
Fatal(cause) ==
    /\ status' = "fatal"
    /\ fatalCause' = cause

Running == status = "running"

(***************************************************************************)
(* main, stage 1: the crawl.                                               *)
(***************************************************************************)
\* main without the test of line 26: the crawl always runs
MainStart_noGate ==
    /\ Running /\ mainPC = "start"
    /\ mainPC' = "crawl"
    /\ UNCHANGED <<run, status, fatalCause, pageNumber, linkIdx, htmlDownloadWaitGroup,
                   pdfDownloadWaitGroup, page, fullURLList, dl, fsVars, funcVars, localFileAtStart>>

\* main, line 26: the crawl runs only when avient.com.html is not a file
MainStart ==
    /\ Running /\ mainPC = "start"
    /\ mainPC' = IF IsRegular(localFile) THEN "stage2" ELSE "crawl"
    /\ UNCHANGED <<run, status, fatalCause, pageNumber, linkIdx, htmlDownloadWaitGroup,
                   pdfDownloadWaitGroup, page, fullURLList, dl, fsVars, funcVars, localFileAtStart>>

\* main, lines 27-31: Add(1) and go getDataFromURL for the next page
LaunchPage ==
    /\ Running /\ mainPC = "crawl" /\ pageNumber <= MaxPage
    /\ htmlDownloadWaitGroup' = wgAdd(htmlDownloadWaitGroup)
    /\ page' = [page EXCEPT ![pageNumber].pc = "fetch"]
    /\ pageNumber' = pageNumber + 1
    /\ UNCHANGED <<run, status, fatalCause, mainPC, linkIdx, pdfDownloadWaitGroup,
                   fullURLList, dl, fsVars, funcVars, localFileAtStart>>

\* main, line 27: the loop ends
CrawlLoopDone ==
    /\ Running /\ mainPC = "crawl" /\ pageNumber > MaxPage
    /\ mainPC' = "waitPages"
    /\ UNCHANGED <<run, status, fatalCause, pageNumber, linkIdx, htmlDownloadWaitGroup,
                   pdfDownloadWaitGroup, page, fullURLList, dl, fsVars, funcVars, localFileAtStart>>

\* main, line 33: htmlDownloadWaitGroup.Wait()
WaitPages ==
    /\ Running /\ mainPC = "waitPages"
    /\ WaitReturns(htmlDownloadWaitGroup)
    /\ mainPC' = "stage2"
    /\ UNCHANGED <<run, status, fatalCause, pageNumber, linkIdx, htmlDownloadWaitGroup,
                   pdfDownloadWaitGroup, page, fullURLList, dl, fsVars, funcVars, localFileAtStart>>

(***************************************************************************)
(* getDataFromURL, one goroutine per page.                                 *)
(***************************************************************************)
\* getDataFromURL with a test of the status: a response that is not OK ends
\* the task without an append
PageFetch_statusChecked(p) ==
    /\ Running /\ page[p].pc = "fetch"
    /\ \E resp \in PageResponses :
          IF resp.status = StatusOK
          THEN /\ page' = [page EXCEPT ![p] = [pc |-> "open", body |-> resp.body,
                                                status |-> resp.status]]
               /\ htmlDownloadWaitGroup' = htmlDownloadWaitGroup
          ELSE /\ page' = [page EXCEPT ![p] = [pc |-> "done", body |-> resp.body,
                                                status |-> resp.status]]
               /\ htmlDownloadWaitGroup' = wgDone(htmlDownloadWaitGroup)
    /\ UNCHANGED <<run, status, fatalCause, mainVars, pdfDownloadWaitGroup,
                   fullURLList, dl, fsVars, funcVars, localFileAtStart>>

\* lines 253-266: http.Get, io.ReadAll and Body.Close succeed; the status of
\* the response is not read
PageFetch(p) ==
    /\ Running /\ page[p].pc = "fetch"
    /\ htmlDownloadWaitGroup' = htmlDownloadWaitGroup
    /\ \E resp \in PageResponses :
          page' = [page EXCEPT ![p] = [pc |-> "open", body |-> resp.body,
                                       status |-> resp.status]]
    /\ UNCHANGED <<run, status, fatalCause, mainVars, pdfDownloadWaitGroup,
                   fullURLList, dl, fsVars, funcVars, localFileAtStart>>

\* lines 253-266: http.Get, io.ReadAll or Body.Close returns an error
PageFetchFails(p) ==
    /\ Running /\ page[p].pc = "fetch"
    /\ \E cause \in {"transport", "read", "close"} : Fatal(cause)
    /\ UNCHANGED <<run, mainVars, htmlDownloadWaitGroup, pdfDownloadWaitGroup, page,
                   fullURLList, dl, fsVars, funcVars, localFileAtStart>>

\* appendAndWriteToFile, line 216: os.OpenFile with O_APPEND|O_CREATE|O_WRONLY;
\* a directory cannot be opened for writing
PageOpen(p) ==
    /\ Running /\ page[p].pc = "open"
    /\ ~localFile.isDir
    /\ localFile' = [localFile EXCEPT !.exists = TRUE]
    /\ page' = [page EXCEPT ![p].pc = "write"]
    /\ UNCHANGED <<run, status, fatalCause, mainVars, htmlDownloadWaitGroup,
                   pdfDownloadWaitGroup, fullURLList, dl, outDir, outDirExists, funcVars, localFileAtStart>>

\* appendAndWriteToFile, lines 217-219: the open fails
PageOpenFails(p) ==
    /\ Running /\ page[p].pc = "open"
    /\ Fatal("open")
    /\ UNCHANGED <<run, mainVars, htmlDownloadWaitGroup, pdfDownloadWaitGroup, page,
                   fullURLList, dl, fsVars, funcVars, localFileAtStart>>

\* what WriteString(content + "\n") is asked to append
Entry(body) == body \o <<Newline>>

\* the entry is written at the start of the file, as without O_APPEND
PageWrite_noAppend(p) ==
    /\ Running /\ page[p].pc = "write"
    /\ localFile' = [localFile EXCEPT !.content = WriteAt0(@, Entry(page[p].body))]
    /\ page' = [page EXCEPT ![p].pc = "closef"]
    /\ UNCHANGED <<run, status, fatalCause, mainVars, htmlDownloadWaitGroup,
                   pdfDownloadWaitGroup, fullURLList, dl, outDir, outDirExists, funcVars, localFileAtStart>>

\* appendAndWriteToFile, line 221: the whole entry is appended by one write
PageWrite(p) ==
    /\ Running /\ page[p].pc = "write"
    /\ localFile' = [localFile EXCEPT !.content = @ \o Entry(page[p].body)]
    /\ page' = [page EXCEPT ![p].pc = "closef"]
    /\ UNCHANGED <<run, status, fatalCause, mainVars, htmlDownloadWaitGroup,
                   pdfDownloadWaitGroup, fullURLList, dl, outDir, outDirExists, funcVars, localFileAtStart>>

\* appendAndWriteToFile, lines 221-224: the write fails after k elements
PageWriteFails(p) ==
    /\ Running /\ page[p].pc = "write"
    /\ \E k \in 0..Len(page[p].body) :
          localFile' = [localFile EXCEPT !.content = @ \o SubSeq(Entry(page[p].body), 1, k)]
    /\ Fatal("write")
    /\ UNCHANGED <<run, mainVars, htmlDownloadWaitGroup, pdfDownloadWaitGroup, page,
                   fullURLList, dl, outDir, outDirExists, funcVars, localFileAtStart>>

\* lines 226 and 271: the file is closed, the function returns, wg.Done runs
PageClose(p) ==
    /\ Running /\ page[p].pc = "closef"
    /\ page' = [page EXCEPT ![p].pc = "done"]
    /\ htmlDownloadWaitGroup' = wgDone(htmlDownloadWaitGroup)
    /\ UNCHANGED <<run, status, fatalCause, mainVars, pdfDownloadWaitGroup,
                   fullURLList, dl, fsVars, funcVars, localFileAtStart>>

\* appendAndWriteToFile, lines 226-229: the close fails
PageCloseFails(p) ==
    /\ Running /\ page[p].pc = "closef"
    /\ Fatal("fclose")
    /\ UNCHANGED <<run, mainVars, htmlDownloadWaitGroup, pdfDownloadWaitGroup, page,
                   fullURLList, dl, fsVars, funcVars, localFileAtStart>>

(***************************************************************************)
(* main, stage 2: extraction and the download loop.                        *)
(***************************************************************************)
\* a downloadPDF goroutine that has not been started
NoResp == [status |-> 0, ctype |-> <<>>, body |-> <<>>, readErr |-> FALSE]
IdleTask ==
    [pc |-> "idle", url |-> <<>>, filename |-> <<>>, resp |-> NoResp, result |-> FALSE,
     gets |-> 0]

\* main, lines 36-39: read the artifact, extract the links, drop duplicates
Extract ==
    /\ Running /\ mainPC = "stage2"
    /\ IF IsRegular(localFile)
       THEN /\ \E links \in {parseHTML(localFile.content)} :
                    fullURLList' = removeDuplicatesFromSlice(links)
            /\ mainPC' = "mkdir"
            /\ status' = status
       ELSE /\ fullURLList' = fullURLList
            /\ mainPC' = "end"
            /\ status' = "exited"
    /\ UNCHANGED <<run, fatalCause, pageNumber, linkIdx, htmlDownloadWaitGroup,
                   pdfDownloadWaitGroup, page, dl, fsVars, funcVars, localFileAtStart>>

\* readAFileAsString, lines 243-246: os.ReadFile fails
ExtractReadFails ==
    /\ Running /\ mainPC = "stage2" /\ IsRegular(localFile)
    /\ Fatal("readfile")
    /\ UNCHANGED <<run, mainVars, htmlDownloadWaitGroup, pdfDownloadWaitGroup, page,
                   fullURLList, dl, fsVars, funcVars, localFileAtStart>>

\* main, lines 43-48: os.MkdirAll (an error is only logged), then slices.Reverse
Mkdir ==
    /\ Running /\ mainPC = "mkdir"
    /\ \/ outDirExists' = TRUE
       \/ ~outDirExists /\ outDirExists' = FALSE
    /\ fullURLList' = Reverse(fullURLList)
    /\ dl' = [i \in DOMAIN fullURLList |-> IdleTask]
    /\ linkIdx' = 1
    /\ mainPC' = "launch"
    /\ UNCHANGED <<run, status, fatalCause, pageNumber, htmlDownloadWaitGroup,
                   pdfDownloadWaitGroup, page, localFile, outDir, funcVars, localFileAtStart>>

\* main, lines 52-55: fullURL stays "" when url already starts with the origin
ResolveURL(url) == IF ~HasPrefix(url, origin) THEN origin \o url ELSE <<>>

\* main, lines 56-61: the URL is valid, Add(1) and go downloadPDF; the task's
\* filename (line 73) depends on its argument alone and is kept with the task
LaunchDownload ==
    /\ Running /\ mainPC = "launch" /\ linkIdx <= Len(fullURLList)
    /\ isUrlValid(ResolveURL(fullURLList[linkIdx]))
    /\ pdfDownloadWaitGroup' = wgAdd(pdfDownloadWaitGroup)
    /\ dl' = [dl EXCEPT ![linkIdx].pc = "check",
                        ![linkIdx].url = ResolveURL(fullURLList[linkIdx]),
                        ![linkIdx].filename =
                            sanitizeFileNameFromURL(ResolveURL(fullURLList[linkIdx]))]
    /\ linkIdx' = linkIdx + 1
    /\ UNCHANGED <<run, status, fatalCause, mainPC, pageNumber, htmlDownloadWaitGroup,
                   page, fullURLList, fsVars, funcVars, localFileAtStart>>

\* main, lines 56-59: the URL is invalid, it is logged and skipped
SkipInvalid ==
    /\ Running /\ mainPC = "launch" /\ linkIdx <= Len(fullURLList)
    /\ ~isUrlValid(ResolveURL(fullURLList[linkIdx]))
    /\ linkIdx' = linkIdx + 1
    /\ UNCHANGED <<run, status, fatalCause, mainPC, pageNumber, htmlDownloadWaitGroup,
                   pdfDownloadWaitGroup, page, fullURLList, dl, fsVars, funcVars, localFileAtStart>>

\* main, line 50: the loop ends
LaunchLoopDone ==
    /\ Running /\ mainPC = "launch" /\ linkIdx > Len(fullURLList)
    /\ mainPC' = "waitPDFs"
    /\ UNCHANGED <<run, status, fatalCause, pageNumber, linkIdx, htmlDownloadWaitGroup,
                   pdfDownloadWaitGroup, page, fullURLList, dl, fsVars, funcVars, localFileAtStart>>

\* main, lines 63-65: pdfDownloadWaitGroup.Wait(), then main returns
WaitPDFs ==
    /\ Running /\ mainPC = "waitPDFs"
    /\ WaitReturns(pdfDownloadWaitGroup)
    /\ mainPC' = "end"
    /\ status' = "exited"
    /\ UNCHANGED <<run, fatalCause, pageNumber, linkIdx, htmlDownloadWaitGroup,
                   pdfDownloadWaitGroup, page, fullURLList, dl, fsVars, funcVars, localFileAtStart>>

(***************************************************************************)
(* downloadPDF, one goroutine per launched link.                           *)
(***************************************************************************)
Tasks == DOMAIN dl

\* line 73: the file name of task i
FileName(i) == dl[i].filename

\* downloadPDF returns result; the deferred wg.Done runs
Return(i, result) ==
    /\ dl' = [dl EXCEPT ![i].pc = "done", ![i].result = result]
    /\ pdfDownloadWaitGroup' = wgDone(pdfDownloadWaitGroup)

\* lines 73-82: the file exists, the task returns false
DlSkip(i) ==
    /\ Running /\ dl[i].pc = "check"
    /\ fileExists(outDir, FileName(i))
    /\ Return(i, FALSE)
    /\ UNCHANGED <<run, status, fatalCause, mainVars, htmlDownloadWaitGroup, page,
                   fullURLList, fsVars, funcVars, localFileAtStart>>

\* lines 73-85: the file does not exist, the task goes on to the request
DlCheck(i) ==
    /\ Running /\ dl[i].pc = "check"
    /\ ~fileExists(outDir, FileName(i))
    /\ dl' = [dl EXCEPT ![i].pc = "get"]
    /\ UNCHANGED <<run, status, fatalCause, mainVars, htmlDownloadWaitGroup,
                   pdfDownloadWaitGroup, page, fullURLList, fsVars, funcVars, localFileAtStart>>

\* the checks without the test of the byte count
Accepts_noZeroCheck(resp) ==
    /\ resp.status = StatusOK
    /\ Contains(resp.ctype, pdfType)
    /\ ~resp.readErr

\* lines 96-118: status, Content-Type, io.Copy and the byte count are accepted
Accepts(resp) ==
    /\ resp.status = StatusOK
    /\ Contains(resp.ctype, pdfType)
    /\ ~resp.readErr
    /\ Len(resp.body) # 0

\* lines 88-118: the GET returns a response, which is checked and buffered
DlGet(i) ==
    /\ Running /\ dl[i].pc = "get"
    /\ \E resp \in Responses :
          IF Accepts(resp)
          THEN /\ dl' = [dl EXCEPT ![i].pc = "create", ![i].resp = resp,
                                   ![i].gets = @ + 1]
               /\ pdfDownloadWaitGroup' = pdfDownloadWaitGroup
          ELSE /\ dl' = [dl EXCEPT ![i].pc = "done", ![i].result = FALSE,
                                   ![i].gets = @ + 1]
               /\ pdfDownloadWaitGroup' = wgDone(pdfDownloadWaitGroup)
    /\ UNCHANGED <<run, status, fatalCause, mainVars, htmlDownloadWaitGroup, page,
                   fullURLList, fsVars, funcVars, localFileAtStart>>

\* lines 88-92: client.Get returns an error (transport failure or timeout)
DlGetFails(i) ==
    /\ Running /\ dl[i].pc = "get"
    /\ dl' = [dl EXCEPT ![i].pc = "done", ![i].result = FALSE, ![i].gets = @ + 1]
    /\ pdfDownloadWaitGroup' = wgDone(pdfDownloadWaitGroup)
    /\ UNCHANGED <<run, status, fatalCause, mainVars, htmlDownloadWaitGroup, page,
                   fullURLList, fsVars, funcVars, localFileAtStart>>

\* os.Create can succeed: PDFs/ exists and the path does not name a directory
CanCreate(filename) == outDirExists /\ ~IsDirPath(filename)

\* line 121: os.Create makes the file, or truncates it when it exists
DlCreate(i) ==
    /\ Running /\ dl[i].pc = "create"
    /\ CanCreate(FileName(i))
    /\ outDir' = PutFile(outDir, FileName(i), <<>>)
    /\ dl' = [dl EXCEPT ![i].pc = "write"]
    /\ UNCHANGED <<run, status, fatalCause, mainVars, htmlDownloadWaitGroup,
                   pdfDownloadWaitGroup, page, fullURLList, localFile, outDirExists,
                   funcVars, localFileAtStart>>

\* lines 121-125: os.Create fails
DlCreateFails(i) ==
    /\ Running /\ dl[i].pc = "create"
    /\ Return(i, FALSE)
    /\ UNCHANGED <<run, status, fatalCause, mainVars, htmlDownloadWaitGroup, page,
                   fullURLList, fsVars, funcVars, localFileAtStart>>

\* lines 128-134: buf.WriteTo writes the whole buffer at the start of the file
DlWrite(i) ==
    /\ Running /\ dl[i].pc = "write"
    /\ outDir' = PutFile(outDir, FileName(i), WriteAt0(outDir[FileName(i)], dl[i].resp.body))
    /\ Return(i, TRUE)
    /\ UNCHANGED <<run, status, fatalCause, mainVars, htmlDownloadWaitGroup, page,
                   fullURLList, localFile, outDirExists, funcVars, localFileAtStart>>

\* lines 128-131: buf.WriteTo fails after k bytes
DlWriteFails(i) ==
    /\ Running /\ dl[i].pc = "write"
    /\ \E k \in 0..(Len(dl[i].resp.body) - 1) :
          outDir' = PutFile(outDir, FileName(i),
                            WriteAt0(outDir[FileName(i)], SubSeq(dl[i].resp.body, 1, k)))
    /\ Return(i, FALSE)
    /\ UNCHANGED <<run, status, fatalCause, mainVars, htmlDownloadWaitGroup, page,
                   fullURLList, localFile, outDirExists, funcVars, localFileAtStart>>

(***************************************************************************)
(* The program is run again over the same file system.                     *)
(***************************************************************************)
Restart ==
    /\ status \in {"fatal", "exited"}
    /\ run < MaxRuns
    /\ run' = run + 1
    /\ status' = "running"
    /\ fatalCause' = "none"
    /\ mainPC' = "start"
    /\ pageNumber' = 0
    /\ linkIdx' = 1
    /\ htmlDownloadWaitGroup' = 0
    /\ pdfDownloadWaitGroup' = 0
    /\ page' = [p \in Pages |-> [pc |-> "idle", body |-> <<>>, status |-> 0]]
    /\ fullURLList' = <<>>
    /\ dl' = <<>>
    /\ localFileAtStart' = localFile
    /\ UNCHANGED <<fsVars, funcVars>>

Next ==
    \/ MainStart \/ LaunchPage \/ CrawlLoopDone \/ WaitPages
    \/ \E p \in Pages : PageFetch(p)
    \/ \E p \in Pages : PageFetchFails(p)
    \/ \E p \in Pages : PageOpen(p)
    \/ \E p \in Pages : PageOpenFails(p)
    \/ \E p \in Pages : PageWrite(p)
    \/ \E p \in Pages : PageWriteFails(p)
    \/ \E p \in Pages : PageClose(p)
    \/ \E p \in Pages : PageCloseFails(p)
    \/ Extract \/ ExtractReadFails \/ Mkdir
    \/ LaunchDownload \/ SkipInvalid \/ LaunchLoopDone \/ WaitPDFs
    \/ \E i \in Tasks : DlSkip(i)
    \/ \E i \in Tasks : DlCheck(i)
    \/ \E i \in Tasks : DlGet(i)
    \/ \E i \in Tasks : DlGetFails(i)
    \/ \E i \in Tasks : DlCreate(i)
    \/ \E i \in Tasks : DlCreateFails(i)
    \/ \E i \in Tasks : DlWrite(i)
    \/ \E i \in Tasks : DlWriteFails(i)
    \/ Restart

Spec == Init /\ [][Next]_vars

(***************************************************************************)
(* One run of the program under the scheduling of the Go runtime: a        *)
(* goroutine that can take a step takes it, and a call on the local file   *)
(* system returns.  The GET of a download task returns or fails within the *)
(* timeout of its client; the GET of a page task has no timeout and may    *)
(* never return, so no fairness is stated for PageFetch.                   *)
(***************************************************************************)
NextRun ==
    \/ MainStart \/ LaunchPage \/ CrawlLoopDone \/ WaitPages
    \/ \E p \in Pages : PageFetch(p)
    \/ \E p \in Pages : PageFetchFails(p)
    \/ \E p \in Pages : PageOpen(p)
    \/ \E p \in Pages : PageOpenFails(p)
    \/ \E p \in Pages : PageWrite(p)
    \/ \E p \in Pages : PageWriteFails(p)
    \/ \E p \in Pages : PageClose(p)
    \/ \E p \in Pages : PageCloseFails(p)
    \/ Extract \/ ExtractReadFails \/ Mkdir
    \/ LaunchDownload \/ SkipInvalid \/ LaunchLoopDone \/ WaitPDFs
    \/ \E i \in Tasks : DlSkip(i)
    \/ \E i \in Tasks : DlCheck(i)
    \/ \E i \in Tasks : DlGet(i)
    \/ \E i \in Tasks : DlGetFails(i)
    \/ \E i \in Tasks : DlCreate(i)
    \/ \E i \in Tasks : DlCreateFails(i)
    \/ \E i \in Tasks : DlWrite(i)
    \/ \E i \in Tasks : DlWriteFails(i)

\* the positions a download task can have: one per distinct link of the pages
LinkSlots == 1..Cardinality(UNION {Range(parseHTML(body)) : body \in PageBodies})

\* a step of main outside the body of the loop of line 50
MainStep ==
    \/ MainStart \/ LaunchPage \/ CrawlLoopDone \/ WaitPages
    \/ Extract \/ ExtractReadFails \/ Mkdir
    \/ LaunchLoopDone \/ WaitPDFs

\* the loop of line 50 goes on to its next element: the steps LaunchDownload
\* and SkipInvalid, told by the loop variable alone
LoopAdvance ==
    /\ Running /\ mainPC = "launch" /\ linkIdx <= Len(fullURLList)
    /\ linkIdx' = linkIdx + 1

\* a step of page task p after its GET has returned
PageFileStep(p) ==
    \/ PageOpen(p) \/ PageOpenFails(p)
    \/ PageWrite(p) \/ PageWriteFails(p)
    \/ PageClose(p) \/ PageCloseFails(p)

\* a step of download task i other than its GET
TaskFileStep(i) ==
    /\ i \in Tasks
    /\ \/ DlSkip(i) \/ DlCheck(i)
       \/ DlCreate(i) \/ DlCreateFails(i)
       \/ DlWrite(i) \/ DlWriteFails(i)

\* client.Get of download task i returns, with a response or with an error
GetReturns(i) == i \in Tasks /\ (DlGet(i) \/ DlGetFails(i))

\* a client without Timeout: nothing bounds the GET
ClientTimeout_none == TRUE

\* line 85: Timeout 30 s, the GET of every download task returns
ClientTimeout == \A i \in LinkSlots : WF_vars(GetReturns(i))

\* runnable goroutines run
Scheduling ==
    /\ WF_vars(MainStep)
    /\ WF_linkIdx(LoopAdvance)
    /\ \A p \in Pages : WF_vars(PageFileStep(p))
    /\ \A i \in LinkSlots : WF_vars(TaskFileStep(i))

SpecLive == Init /\ [][NextRun]_vars /\ Scheduling /\ ClientTimeout

(***************************************************************************)
(* Specification of removeDuplicatesFromSlice alone: the input is any      *)
(* sequence over DedupValues of length at most MaxLen; the function is     *)
(* applied to it, and then to its own result.                              *)
(***************************************************************************)
SeqsUpTo(S, n) == UNION {[1..k -> S] : k \in 0..n}

InitDedup ==
    /\ run = 1
    /\ FreshProcess
    /\ localFile = NoFile
    /\ localFileAtStart = NoFile
    /\ outDir = [f \in {} |-> <<>>]
    /\ outDirExists = FALSE
    /\ slice \in SeqsUpTo(DedupValues, MaxLen)
    /\ newReturnSlice = <<>>
    /\ dstep = 0
    /\ NoCall

processVars == <<run, status, fatalCause, mainVars, htmlDownloadWaitGroup,
                 pdfDownloadWaitGroup, page, fullURLList, dl, fsVars, localFileAtStart>>

\* removeDuplicatesFromSlice(slice)
ApplyDedup ==
    /\ dstep = 0
    /\ newReturnSlice' = removeDuplicatesFromSlice(slice)
    /\ dstep' = 1
    /\ UNCHANGED <<slice, processVars, sanVars, htmlVars, called>>

\* removeDuplicatesFromSlice applied to its own result
ApplyDedupAgain ==
    /\ dstep = 1
    /\ slice' = newReturnSlice
    /\ newReturnSlice' = removeDuplicatesFromSlice(newReturnSlice)
    /\ dstep' = 2
    /\ UNCHANGED <<processVars, sanVars, htmlVars, called>>

NextDedup == ApplyDedup \/ ApplyDedupAgain

SpecDedup == InitDedup /\ [][NextDedup]_vars

(***************************************************************************)
(* Specification of sanitizeFileNameFromURL alone: the input is any string *)
(* over URLChars of length at most MaxURLLen; the function is applied once. *)
(***************************************************************************)
\* characters of the inputs: a slash, an escape and its digits, a letter in
\* each case, a dot, and the colon and the question mark of the URL syntax
URLChars == {"/", "%", "2", "5", "B", "a", ".", ":", "?"}

\* the process has not started, the file system is empty
IdleProgram ==
    /\ run = 1
    /\ FreshProcess
    /\ localFile = NoFile
    /\ localFileAtStart = NoFile
    /\ outDir = [f \in {} |-> <<>>]
    /\ outDirExists = FALSE

InitSanitize ==
    /\ IdleProgram
    /\ NoDedup
    /\ rawURL \in SeqsUpTo(URLChars, MaxURLLen)
    /\ safeFileName = <<>>
    /\ htmlContent = <<>> /\ pdfLinks = <<>>
    /\ called = "none"

\* safeFileName := sanitizeFileNameFromURL(rawURL)
ApplySanitize ==
    /\ called = "none"
    /\ safeFileName' = sanitizeFileNameFromURL(rawURL)
    /\ called' = "sanitizeFileNameFromURL"
    /\ UNCHANGED <<rawURL, processVars, dedupVars, htmlVars>>

NextSanitize == ApplySanitize

SpecSanitize == InitSanitize /\ [][NextSanitize]_vars

(***************************************************************************)
(* Specification of parseHTML alone: the input is any document of at most  *)
(* MaxDocLen elements, each an anchor with one of DocHrefs or another      *)
(* element; the function is applied once.                                  *)
(***************************************************************************)
\* an href with a malformed escape, and one whose dot is escaped
hrefBadEscape == <<"/","%","z","z",".","p","d","f">>
hrefEscaped == <<"/","a","%","2","E","p","d","f">>

DocHrefs == {hrefA, hrefXA, hrefPng, hrefBadEscape, hrefEscaped}

\* the elements of a document: anchors with an href, and an element that
\* the selector a[href] does not match
DocElements == {Anchor(h) : h \in DocHrefs} \cup {Newline}

InitParseHTML ==
    /\ IdleProgram
    /\ NoDedup
    /\ rawURL = <<>> /\ safeFileName = <<>>
    /\ htmlContent \in SeqsUpTo(DocElements, MaxDocLen)
    /\ pdfLinks = <<>>
    /\ called = "none"

\* pdfLinks := parseHTML(htmlContent)
ApplyParseHTML ==
    /\ called = "none"
    /\ pdfLinks' = parseHTML(htmlContent)
    /\ called' = "parseHTML"
    /\ UNCHANGED <<htmlContent, processVars, dedupVars, sanVars>>

NextParseHTML == ApplyParseHTML

SpecParseHTML == InitParseHTML /\ [][NextParseHTML]_vars

(***************************************************************************)
(* Properties.                                                             *)
(***************************************************************************)
\* bodies that pass every check of downloadPDF
GoodBodies ==
    {r.body : r \in {x \in Responses :
        x.status = 200 /\ Contains(x.ctype, pdfType) /\ ~x.readErr /\ x.body # <<>>}}

\* C1: every file of the output directory holds the complete, non-empty body
\* of a successful response, in every reachable state.
C1_FilesComplete == \A f \in DOMAIN outDir : outDir[f] \in GoodBodies

\* C2: a task that finds a regular file of its name at its check returns
\* false at once, with no GET and with the output directory unchanged.
C2_SkipIfExists ==
    [][\A i \in DOMAIN dl :
          (/\ dl[i].pc = "check"
           /\ FileName(i) \in DOMAIN outDir
           /\ i \in DOMAIN dl'
           /\ dl'[i] # dl[i])
          => (/\ dl'[i].pc = "done"
              /\ dl'[i].result = FALSE
              /\ dl'[i].gets = 0
              /\ outDir' = outDir)]_vars

\* a second run finds every output file and issues no download request
C2_Witness ==
    /\ run = 2 /\ status = "exited"
    /\ dl # <<>>
    /\ \A i \in DOMAIN dl :
          dl[i].pc = "done" /\ dl[i].gets = 0 /\ FileName(i) \in DOMAIN outDir

\* the response of a task passed every check
PassedChecks(t) ==
    /\ t.gets = 1
    /\ t.resp.status = 200
    /\ Contains(t.resp.ctype, pdfType)
    /\ ~t.resp.readErr
    /\ Len(t.resp.body) > 0

\* C3: a task is at its create or write step only after a GET without
\* transport error, status OK, a PDF content type and a whole non-empty body;
\* the output directory changes only by such a step, and a task that ends at
\* its GET returns false and leaves the directory as it was.
C3_WriteOnlyAfterChecks ==
    /\ [](\A i \in DOMAIN dl : dl[i].pc \in {"create", "write"} => PassedChecks(dl[i]))
    /\ [][/\ outDir' # outDir =>
                \E i \in DOMAIN dl :
                    /\ dl[i].pc \in {"create", "write"} /\ PassedChecks(dl[i])
                    /\ dl'[i].pc # dl[i].pc
                    /\ \A f \in DOMAIN outDir : f # FileName(i) => outDir'[f] = outDir[f]
          /\ \A i \in DOMAIN dl :
                (dl[i].pc = "get" /\ i \in DOMAIN dl' /\ dl'[i].pc = "done")
                => (dl'[i].result = FALSE /\ outDir' = outDir)]_vars

\* one task has written its body, another was rejected at its GET
C3_Witness ==
    \E i, j \in DOMAIN dl :
        /\ dl[i].pc = "done" /\ dl[i].result /\ outDir[FileName(i)] = dl[i].resp.body
        /\ dl[j].pc = "done" /\ ~dl[j].result /\ dl[j].gets = 1
        /\ DOMAIN outDir = {FileName(i)}

\* sequences that hold every element of the set S exactly once
Orderings(S) ==
    {o \in [1..Cardinality(S) -> S] : \A a, b \in DOMAIN o : a # b => o[a] # o[b]}

RECURSIVE ConcatEntries(_)
\* the bodies of the pages of o, each followed by a newline, one after another
ConcatEntries(o) ==
    IF o = <<>> THEN <<>>
    ELSE page[Head(o)].body \o <<Newline>> \o ConcatEntries(Tail(o))

\* the artifact holds exactly the entries of the pages that have written, in some order
WholeEntries ==
    \E o \in Orderings({p \in Pages : page[p].pc \in {"closef", "done"}}) :
        localFile.content = ConcatEntries(o)

Stage1PCs == {"start", "crawl", "waitPages"}

\* C4: once the transport call of a page task has failed, the process is
\* over and stays as it is: main is still in stage 1, no link was extracted,
\* no download task exists, no output file changes, and the artifact holds
\* only whole entries of the pages that had written.
C4_FatalBeforeStage2 ==
    /\ [](fatalCause = "transport" =>
            /\ status = "fatal"
            /\ mainPC \in Stage1PCs
            /\ fullURLList = <<>>
            /\ dl = <<>>
            /\ WholeEntries)
    /\ [][(fatalCause = "transport" /\ fatalCause' = "transport")
            => UNCHANGED <<fsVars, mainVars, page, dl, fullURLList>>]_vars

\* a page task failed at its GET after another page had appended its entry
C4_Witness ==
    /\ status = "fatal" /\ fatalCause = "transport"
    /\ \E p \in Pages : page[p].pc = "done" /\ page[p].body # <<>>
    /\ localFile.content # <<>>

\* the URL the orchestrator is meant to resolve for a link
ResolvedURL(url) == IF HasPrefix(url, origin) THEN url ELSE origin \o url

\* C5: after the launch loop, every link whose resolved URL (the link itself
\* when it is already absolute under the origin, the origin followed by the
\* link otherwise) is well formed has exactly one download task.
C5_OneTaskPerLink ==
    mainPC \in {"waitPDFs", "end"} =>
        \A k \in DOMAIN fullURLList :
            isUrlValid(ResolvedURL(fullURLList[k])) =>
                Cardinality({i \in DOMAIN dl :
                    dl[i].pc # "idle" /\ dl[i].url = ResolvedURL(fullURLList[k])}) = 1

\* C6: whenever stage 2 has begun (main is past the page join, links are
\* extracted or a download task exists), no page task is between its launch
\* and its completion signal: in a run that crawled, all of them are done.
C6_Barrier ==
    (mainPC \notin Stage1PCs \/ fullURLList # <<>> \/ dl # <<>>) =>
        /\ htmlDownloadWaitGroup = 0
        /\ \/ \A p \in Pages : page[p].pc = "done"
           \/ \A p \in Pages : page[p].pc = "idle"

\* stage 2 runs after a crawl of the same run
C6_Witness ==
    /\ mainPC = "launch" /\ dl # <<>>
    /\ \A p \in Pages : page[p].pc = "done"

\* C7: each counter equals the number of launched tasks that have not yet
\* signalled completion, so it is never negative; main is past a join only
\* when every task of that stage has signalled.
C7_CountingJoin ==
    /\ htmlDownloadWaitGroup = Cardinality({p \in Pages : page[p].pc \notin {"idle", "done"}})
    /\ pdfDownloadWaitGroup = Cardinality({i \in DOMAIN dl : dl[i].pc \notin {"idle", "done"}})
    /\ htmlDownloadWaitGroup >= 0 /\ pdfDownloadWaitGroup >= 0
    /\ mainPC \notin Stage1PCs => \A p \in Pages : page[p].pc \in {"idle", "done"}
    /\ mainPC = "end" => \A i \in DOMAIN dl : dl[i].pc \in {"idle", "done"}

\* the download join has returned after an early failure return and a success
C7_Witness ==
    /\ mainPC = "end" /\ pdfDownloadWaitGroup = 0
    /\ \E i, j \in DOMAIN dl :
          /\ dl[i].pc = "done" /\ ~dl[i].result /\ dl[i].resp = NoResp
          /\ dl[j].pc = "done" /\ dl[j].result

\* C8: when two tasks with distinct URLs and the same file name have both
\* written, the file equals the complete body of one of them.
C8_LastWriterWins ==
    \A i, j \in DOMAIN dl :
        (/\ i # j /\ dl[i].url # dl[j].url
         /\ dl[i].pc = "done" /\ dl[i].result
         /\ dl[j].pc = "done" /\ dl[j].result
         /\ FileName(i) = FileName(j))
        => outDir[FileName(i)] \in {dl[i].resp.body, dl[j].resp.body}

\* C9: when the create or the write step of a task fails, no file of the
\* task's name remains in the output directory.
C9_NoFileAfterFailure ==
    [][\A i \in DOMAIN dl :
          (/\ dl[i].pc \in {"create", "write"}
           /\ i \in DOMAIN dl'
           /\ dl'[i].pc = "done" /\ ~dl'[i].result)
          => FileName(i) \notin DOMAIN outDir']_vars

\* position of the first occurrence of x in s
FirstIndex(s, x) == CHOOSE i \in DOMAIN s : s[i] = x /\ \A j \in 1..(i-1) : s[j] # x

\* out is the sequence of the first occurrences of in, in their order
IsFirstOccurrences(in, out) ==
    /\ Range(out) = Range(in)
    /\ \A a, b \in DOMAIN out : a # b => out[a] # out[b]
    /\ \A a, b \in DOMAIN out : a < b => FirstIndex(in, out[a]) < FirstIndex(in, out[b])

\* C10: the result holds every distinct value of the input exactly once, in
\* the order of the first occurrences, and nothing else; applied to its own
\* result the function returns it unchanged.
C10_Dedup ==
    /\ dstep >= 1 => IsFirstOccurrences(slice, newReturnSlice)
    /\ dstep = 2 => newReturnSlice = slice

\* an input with a repeated value between two others was deduplicated twice
C10_Witness ==
    /\ dstep = 2
    /\ slice = <<hrefA, hrefXA, hrefPng>>
    /\ newReturnSlice = slice

\* every download request of the run was answered by an accepted response
\* and every create and write step succeeded
AllDownloadsSucceeded ==
    /\ outDirExists
    /\ \A i \in DOMAIN dl : dl[i].gets = 1 => (dl[i].pc = "done" /\ dl[i].result)

\* the file names of the distinct extracted links
ExpectedNames == {sanitizeFileNameFromURL(ResolvedURL(fullURLList[k])) : k \in DOMAIN fullURLList}

\* C11: when the first run has ended after extraction, deduplication and the
\* download stage, with every request answered by a successful non-empty PDF
\* response, the output directory holds exactly one non-empty file per
\* distinct sanitized file name of the distinct extracted links, and no
\* link was requested twice.
C11_EndToEnd ==
    (/\ run = 1 /\ status = "exited" /\ mainPC = "end"
     /\ localFile.exists
     /\ AllDownloadsSucceeded)
    => /\ DOMAIN outDir = ExpectedNames
       /\ \A f \in DOMAIN outDir : outDir[f] # <<>>
       /\ \A i, j \in DOMAIN dl :
             (i # j /\ dl[i].gets = 1 /\ dl[j].gets = 1) => dl[i].url # dl[j].url


\* the part of a path after its last slash
LastSegment(p) == SubSeq(p, LastIndex(p, "/") + 1, Len(p))

\* a character the regular expression leaves in place
IsAllowedChar(c) == IsWordChar(c) \/ c \in {"-", "."}

\* the segment decodes, and to characters that are all replaced
DecodesToDisallowed(decoded) ==
    ~decoded.err /\ \A i \in DOMAIN decoded.val : ~IsAllowedChar(decoded.val[i])

\* the cases for which the fallback name is stated: the last segment of the
\* parsed path is empty, or it decodes to disallowed characters only
FallbackCase(path) ==
    LastSegment(path) = <<>> \/ DecodesToDisallowed(QueryUnescape(LastSegment(path)))

\* a name that is not empty, in lower case, of word characters, "-" and "."
IsSafeName(name) ==
    /\ name # <<>>
    /\ ToLower(name) = name
    /\ \A i \in DOMAIN name : IsAllowedChar(name[i])

\* C12: the result is "invalid_filename" for every string that does not
\* parse as a URL, "downloaded_file" for every URL that parses and whose last
\* path segment is empty (an empty path included) or decodes to disallowed
\* characters only, and otherwise a non-empty lower-case name of word
\* characters, hyphens and dots.
C12_SanitizeCases ==
    called = "sanitizeFileNameFromURL" =>
        IF Parse(rawURL).err THEN safeFileName = invalid_filename
        ELSE IF FallbackCase(Parse(rawURL).path) THEN safeFileName = downloaded_file
        ELSE IsSafeName(safeFileName)

\* the href decodes, and its decoded text ends in ".pdf" in some case
DecodesToPdf(href) ==
    /\ ~QueryUnescape(href).err
    /\ Len(QueryUnescape(href).val) >= 4
    /\ ToLower(SubSeq(QueryUnescape(href).val, Len(QueryUnescape(href).val) - 3,
                      Len(QueryUnescape(href).val))) = <<".", "p", "d", "f">>

\* positions of the anchors of the document that qualify
PdfAnchors(doc) == {i \in DOMAIN doc : doc[i].kind = "a" /\ DecodesToPdf(doc[i].href)}

\* C13: the result holds, in document order and with duplicates kept, the
\* href as written of exactly the anchors whose href decodes to a text that
\* ends in ".pdf" whatever the case; every other element is skipped.
C13_ParseHTML ==
    called = "parseHTML" =>
        /\ Len(pdfLinks) = Cardinality(PdfAnchors(htmlContent))
        /\ \A i \in PdfAnchors(htmlContent) :
              pdfLinks[Cardinality({j \in PdfAnchors(htmlContent) : j <= i})]
                  = htmlContent[i].href

\* a repeated upper-case link and an escaped one are kept as written, around
\* an anchor whose href does not decode
C13_Witness ==
    /\ called = "parseHTML"
    /\ htmlContent = <<Anchor(hrefXA), Anchor(hrefBadEscape), Anchor(hrefEscaped), Anchor(hrefXA)>>
    /\ pdfLinks = <<hrefXA, hrefEscaped, hrefXA>>

\* C14: once every page task of a run has signalled completion, the artifact
\* is the concatenation, in some order of the page indices, of one entry per
\* page: the whole body of that page followed by a newline.
C14_OneEntryPerPage ==
    (\A p \in Pages : page[p].pc = "done") =>
        /\ localFile.exists
        /\ \E o \in Orderings(Pages) : localFile.content = ConcatEntries(o)

\* the crawl is over, the entry of page 1 was appended before that of page 0,
\* and the two bodies differ
C14_Witness ==
    /\ mainPC = "stage2" /\ status = "running"
    /\ \A p \in Pages : page[p].pc = "done" /\ page[p].body # <<>>
    /\ page[0].body # page[1].body
    /\ localFile.content = ConcatEntries(<<1, 0>>)

\* C15: in a run that found the artifact present as a regular file, no page
\* task is launched, no page request is issued and the artifact stays as the
\* run found it; so a page task exists only in a run that found the artifact
\* absent or not a regular file.
C15_CrawlGatedByArtifact ==
    /\ (localFileAtStart.exists /\ ~localFileAtStart.isDir) =>
           /\ \A p \in Pages : page[p].pc = "idle"
           /\ pageNumber = 0 /\ htmlDownloadWaitGroup = 0
           /\ localFile = localFileAtStart
    /\ (\E p \in Pages : page[p].pc # "idle") =>
           (~localFileAtStart.exists \/ localFileAtStart.isDir)

\* a second run found the artifact of the first, skipped the crawl and went
\* through the download stage to its end
C15_Witness ==
    /\ run = 2 /\ status = "exited" /\ mainPC = "end"
    /\ localFileAtStart.exists /\ ~localFileAtStart.isDir
    /\ localFileAtStart.content # <<>>
    /\ dl # <<>>

\* number of entries of the artifact: each ends with a newline
Entries(content) == Cardinality({i \in DOMAIN content : content[i] = Newline})

\* C16: whenever a run that found the artifact present, and therefore did
\* not crawl, is at or past link extraction, the artifact is not empty and
\* holds one entry per page index.
C16_SkippedCrawlIsComplete ==
    (/\ localFileAtStart.exists /\ ~localFileAtStart.isDir
     /\ mainPC \notin Stage1PCs)
    => /\ localFile.content # <<>>
       /\ Entries(localFile.content) = Cardinality(Pages)

\* task i has ended in a per-item error
FailedItem(i) == dl[i].pc = "done" /\ ~dl[i].result

\* no task other than i is writing, or has written, the file of task i
OnlyWriter(i) ==
    \A j \in DOMAIN dl :
        (j # i /\ FileName(j) = FileName(i)) =>
            /\ dl[j].pc # "write"
            /\ ~(dl[j].pc = "done" /\ dl[j].result)

\* the siblings of a failed item keep their outcome and their file
SiblingsUntouched ==
    \A i \in DOMAIN dl :
        (dl[i].pc = "done" /\ dl[i].result /\ OnlyWriter(i)) =>
            /\ FileName(i) \in DOMAIN outDir
            /\ outDir[FileName(i)] = dl[i].resp.body

\* a failed item issued at most one request and did not end the process, and
\* when main has returned every launched task has ended
FailureIsLocal ==
    /\ \A i \in DOMAIN dl : dl[i].gets <= 1
    /\ (\E i \in DOMAIN dl : FailedItem(i)) => status # "fatal"
    /\ (mainPC = "end" /\ status = "exited") =>
           \A i \in DOMAIN dl : dl[i].pc \in {"idle", "done"}

\* C17: a per-item error of the download stage ends that item only: at most
\* one GET per task, the process goes on, every other launched task runs to
\* its end, and the file a successful sibling has written still holds the
\* sibling's body whatever the failed items did.
C17_ErrorsAreLocal == FailureIsLocal /\ SiblingsUntouched

\* C18: under the scheduling of the runtime and the client timeout, whenever
\* a download task is launched and has not ended, or main waits at the
\* download join, the join eventually returns, and it returns only when
\* every launched task has ended (skipped, failed or completed); and while
\* the request of a page task has not returned main is in stage 1, so a
\* request that never returns keeps stage 2 from ever beginning.
C18_Liveness ==
    /\ ((\E i \in DOMAIN dl : dl[i].pc \notin {"idle", "done"}) \/ mainPC = "waitPDFs")
           ~> (mainPC = "end")
    /\ [](mainPC = "end" => \A i \in DOMAIN dl : dl[i].pc \in {"idle", "done"})
    /\ [](\A p \in Pages : page[p].pc = "fetch" => mainPC \in Stage1PCs)

\* the download join has returned although the GET of a task ended in an
\* error, a timeout included
C18_Witness ==
    /\ mainPC = "end" /\ status = "exited"
    /\ \E i \in DOMAIN dl :
          dl[i].pc = "done" /\ ~dl[i].result /\ dl[i].gets = 1 /\ dl[i].resp = NoResp

\* the name made of a segment as it is, without decoding
NameOfUndecoded(segment) == SafeName(Trim(ReplaceInvalid(segment), "_"))

\* C19: when the URL parses and the decoding of the last element of its
\* path fails, the result is the replacement, trim and lowercasing of that
\* element as it was before decoding.
C19_DecodeFailureKeepsSegment ==
    (/\ called = "sanitizeFileNameFromURL"
     /\ ~Parse(rawURL).err
     /\ QueryUnescape(Base(Parse(rawURL).path)).err)
    => safeFileName = NameOfUndecoded(Base(Parse(rawURL).path))

\* the errors of a page task that end the process
PageTaskErrors == {"transport", "read", "close", "open", "write", "fclose"}

\* C20: while a run that crawls goes on, every page task whose response was
\* received and read has appended, or is about to append, its whole body
\* whatever the status of the response, and a task that has appended goes
\* on to signal completion; a process that ended in stage 1 ended by a
\* transport, body read or close, or artifact I/O error.
C20_StatusIgnored ==
    /\ (status = "running" /\ \E p \in Pages : page[p].pc # "idle") =>
           /\ \A p \in Pages : page[p].status # 0 =>
                  page[p].pc \in {"open", "write", "closef", "done"}
           /\ WholeEntries
    /\ (status = "fatal" /\ mainPC \in Stage1PCs) => fatalCause \in PageTaskErrors

\* the crawl is over and the run goes on: the page answered with status 404
\* has its entry in the artifact, and a link of that page was extracted
C20_Witness ==
    /\ status = "running" /\ mainPC = "mkdir"
    /\ \E p, q \in Pages :
          /\ page[p].pc = "done" /\ page[p].status = 404
          /\ page[q].pc = "done" /\ page[q].status = 500
          /\ localFile.content = ConcatEntries(<<p, q>>)
    /\ hrefAbs \in Range(fullURLList)

=============================================================================
